---- MODULE Spec2Model ----
(***************************************************************************)
(* Model of src/full_speed/state.rs: the static queue head and transfer    *)
(* descriptor arenas of the two USB controller instances, the instance     *)
(* selector state(), the register binder assign_endptlistaddr() and the    *)
(* two steal operations steal_qhs() and steal_tds().                        *)
(*                                                                         *)
(* Addresses are natural numbers.  The target is a 32 bit core, so the     *)
(* cast `ptr as u32` of line 84 keeps every address as it is; the start    *)
(* addresses below are far under 2^32.                                     *)
(***************************************************************************)
EXTENDS Integers, Sequences, FiniteSets, TLC

----------------------------------------------------------------------------
(* Program constants *)

\* crate::QH_COUNT; the 16 element initialisers of lines 14-31 and 38-55
\* and the 16 element literals of lines 96-99 and 115-118 fix its value.
QH_COUNT == 16

\* #[repr(align(32))] struct TdList, line 12
TD_LIST_ALIGN == 32

\* A build in which QhList carries the alignment attribute of TdList.
QH_LIST_ALIGN_as_td == TD_LIST_ALIGN

\* #[repr(align(4096))] struct QhList, line 36
QH_LIST_ALIGN == 4096

\* size_of::<qh::Qh>() and size_of::<td::Td>(): the record types live in
\* the crate's qh and td modules; the device controller's queue head is 64
\* bytes and its transfer descriptor 32 bytes.
QH_SIZE == 64
TD_SIZE == 32

----------------------------------------------------------------------------
(* Bounds of the model *)

\* Number of calls (of any of the three operations) in one run.
MaxCalls == 4

\* Where the linker may start placing the statics (deliberately including
\* addresses with no alignment at all), and how many bytes of other statics
\* it may put between the two states.
SectionStarts == {536870912 + 4, 536870912 + 8192}
Gaps == {0, 96}

----------------------------------------------------------------------------
(* Handles *)

\* ral::usb::USB1 and ral::usb::USB2, the two register block pointers that
\* the match of lines 71-75 compares the handle with.
Instances == {"USB1", "USB2"}

\* A handle whose register block pointer is neither of the two.
Handles == Instances \cup {"USB_OTHER"}

\* The two statics of lines 67-68.
Statics == {"USB1_STATE", "USB2_STATE"}

\* The arm of line 74.
Unreachable == "unreachable"

VARIABLES
    addr,           \* addr[s]: the address the linker gave static s
    qhsFirst,       \* whether the compiler laid State.qhs out before State.tds
    ASYNCLISTADDR,  \* ASYNCLISTADDR[usb]: the register of instance usb
    log             \* the calls made so far, oldest first, with their results

vars == <<addr, qhsFirst, ASYNCLISTADDR, log>>

----------------------------------------------------------------------------
(* Memory layout, as the compiler and the linker compute it *)

Max(a, b) == IF a >= b THEN a ELSE b

AlignUp(a, n) == ((a + n - 1) \div n) * n

\* size_of::<QhList>(): the array, padded to the alignment of the type.
QhListSize == AlignUp(QH_COUNT * QH_SIZE, QH_LIST_ALIGN)

\* size_of::<TdList>()
TdListSize == AlignUp(QH_COUNT * TD_SIZE, TD_LIST_ALIGN)

\* align_of::<State>(): the largest alignment of its fields.
StateAlign == Max(QH_LIST_ALIGN, TD_LIST_ALIGN)

\* offset_of!(State, qhs) and offset_of!(State, tds).  State is repr(Rust),
\* so the field order is the compiler's choice; each field sits at the next
\* multiple of its alignment.
QhsOffset == IF qhsFirst THEN 0 ELSE AlignUp(TdListSize, QH_LIST_ALIGN)
TdsOffset == IF qhsFirst THEN AlignUp(QhListSize, TD_LIST_ALIGN) ELSE 0

\* size_of::<State>()
StateSize ==
    AlignUp(Max(QhsOffset + QhListSize, TdsOffset + TdListSize), StateAlign)

\* &mut s.qhs.0[i] and &mut s.tds.0[i] as addresses, i in 0..QH_COUNT-1.
QhAddr(s, i) == addr[s] + QhsOffset + i * QH_SIZE
TdAddr(s, i) == addr[s] + TdsOffset + i * TD_SIZE

----------------------------------------------------------------------------
(* Option<&'static mut T> *)

None == [some |-> FALSE, ptr |-> 0]
Some(p) == [some |-> TRUE, ptr |-> p]

----------------------------------------------------------------------------
(* state(), lines 70-76 *)

\* A selector with the two arms exchanged.
state_swapped(usb) ==
    CASE usb = "USB1" -> "USB2_STATE"
      [] usb = "USB2" -> "USB1_STATE"
      [] OTHER -> Unreachable

\* A selector whose last arm falls back to the first state.
state_fallback(usb) ==
    CASE usb = "USB1" -> "USB1_STATE"
      [] usb = "USB2" -> "USB2_STATE"
      [] OTHER -> "USB1_STATE"

state(usb) ==
    CASE usb = "USB1" -> "USB1_STATE"
      [] usb = "USB2" -> "USB2_STATE"
      [] OTHER -> Unreachable

----------------------------------------------------------------------------
(* assign_endptlistaddr(), lines 82-85 *)

\* Taking the pointer of the other arena.
assign_ptr_tds(s) == TdAddr(s, 0)

\* Masking the pointer down to its offset in the page.
assign_ptr_masked(s) == QhAddr(s, 0) % QH_LIST_ALIGN

\* state(usb).qhs.0.as_ptr(), line 83
assign_ptr(s) == QhAddr(s, 0)

\* A write that lands in the register of every instance.
write_reg_all(regs, usb, v) == [u \in DOMAIN regs |-> v]

\* ral::write_reg!(ral::usb, usb, ASYNCLISTADDR, v), line 84
write_reg(regs, usb, v) == [u \in DOMAIN regs |-> IF u = usb THEN v ELSE regs[u]]

----------------------------------------------------------------------------
(* steal_qhs(), lines 95-104, and steal_tds(), lines 114-123 *)

\* state(usb).qhs.0.iter_mut() and state(usb).tds.0.iter_mut(): the
\* references in slot order (position k of the sequence is slot k-1).
qhs_iter_mut(s) == [k \in 1..QH_COUNT |-> QhAddr(s, k - 1)]
tds_iter_mut(s) == [k \in 1..QH_COUNT |-> TdAddr(s, k - 1)]

\* The array literals of lines 96-99 and 115-118.
AllNone == [k \in 1..QH_COUNT |-> None]

\* A loop that stops one element short.
ZipAssign_short(dst, src) ==
    [k \in 1..Len(dst) |-> IF k < Len(src) THEN Some(src[k]) ELSE dst[k]]

\* for (dst, src) in dst.iter_mut().zip(src) { *dst = Some(src); }
\* zip stops with the shorter of the two.
ZipAssign(dst, src) ==
    [k \in 1..Len(dst) |-> IF k <= Len(src) THEN Some(src[k]) ELSE dst[k]]

\* Both functions compute their result from the addresses of the static
\* alone: nothing records that a slot was handed out before, so a repeated
\* call returns the same references again.  The aliasing that follows is
\* the caller's obligation (lines 90-94 and 109-113); the returned array
\* itself is the same in every build.

\* steal_qhs written over the transfer descriptors.
steal_qhs_ret_over_tds(s) == ZipAssign(AllNone, tds_iter_mut(s))

\* The value steal_qhs returns, lines 96-103.
steal_qhs_ret(s) == ZipAssign(AllNone, qhs_iter_mut(s))

\* steal_tds written over the queue heads.
steal_tds_ret_over_qhs(s) == ZipAssign(AllNone, qhs_iter_mut(s))

\* The value steal_tds returns, lines 115-122.
steal_tds_ret(s) == ZipAssign(AllNone, tds_iter_mut(s))

----------------------------------------------------------------------------
(* The state machine *)

\* A call that came back, and a call that panicked in state().
Returned(op, usb, ret) == [op |-> op, usb |-> usb, panicked |-> FALSE, ret |-> ret]
Panicked(op, usb) == [op |-> op, usb |-> usb, panicked |-> TRUE, ret |-> <<>>]

\* The program has aborted: the last call panicked.
Aborted == log # <<>> /\ log[Len(log)].panicked

\* Both statics hold STATE_INIT (lines 62-68) at addresses of the linker's
\* choosing: aligned as their type asks, one after the other in either
\* order, never overlapping.  No register has been written.
Init ==
    /\ qhsFirst \in BOOLEAN
    /\ \E start \in SectionStarts, gap \in Gaps, first \in Statics :
          LET a1 == AlignUp(start, StateAlign)
              a2 == AlignUp(a1 + StateSize + gap, StateAlign)
          IN  addr = [s \in Statics |-> IF s = first THEN a1 ELSE a2]
    /\ ASYNCLISTADDR = [u \in Instances |-> 0]
    /\ log = <<>>

CanCall == ~Aborted /\ Len(log) < MaxCalls

assign_endptlistaddr(usb) ==
    /\ CanCall
    /\ IF state(usb) = Unreachable
       THEN /\ log' = Append(log, Panicked("assign_endptlistaddr", usb))
            /\ UNCHANGED ASYNCLISTADDR
       ELSE /\ ASYNCLISTADDR' = write_reg(ASYNCLISTADDR, usb, assign_ptr(state(usb)))
            /\ log' = Append(log, Returned("assign_endptlistaddr", usb, <<>>))
    /\ UNCHANGED <<addr, qhsFirst>>

steal_qhs(usb) ==
    /\ CanCall
    /\ IF state(usb) = Unreachable
       THEN log' = Append(log, Panicked("steal_qhs", usb))
       ELSE log' = Append(log, Returned("steal_qhs", usb, steal_qhs_ret(state(usb))))
    /\ UNCHANGED <<addr, qhsFirst, ASYNCLISTADDR>>

steal_tds(usb) ==
    /\ CanCall
    /\ IF state(usb) = Unreachable
       THEN log' = Append(log, Panicked("steal_tds", usb))
       ELSE log' = Append(log, Returned("steal_tds", usb, steal_tds_ret(state(usb))))
    /\ UNCHANGED <<addr, qhsFirst, ASYNCLISTADDR>>

Next ==
    \E usb \in Handles :
        \/ assign_endptlistaddr(usb)
        \/ steal_qhs(usb)
        \/ steal_tds(usb)

Spec == Init /\ [][Next]_vars

----------------------------------------------------------------------------
(* Vocabulary of the properties *)

\* The state that belongs to an instance, and the other instance.
StateOf(u) == IF u = "USB1" THEN "USB1_STATE" ELSE "USB2_STATE"
Other(u) == IF u = "USB1" THEN "USB2" ELSE "USB1"

\* Base addresses of the two arenas of instance u.
QhArenaBase(u) == addr[StateOf(u)] + QhsOffset
TdArenaBase(u) == addr[StateOf(u)] + TdsOffset

\* The address of record i of an arena of instance u.
QhRecord(u, i) == QhArenaBase(u) + i * QH_SIZE
TdRecord(u, i) == TdArenaBase(u) + i * TD_SIZE

\* Address a lies in an arena of instance u.
InQhArena(u, a) == QhArenaBase(u) <= a /\ a < QhArenaBase(u) + QH_COUNT * QH_SIZE
InTdArena(u, a) == TdArenaBase(u) <= a /\ a < TdArenaBase(u) + QH_COUNT * TD_SIZE
InArenas(u, a) == InQhArena(u, a) \/ InTdArena(u, a)

StealOps == {"steal_qhs", "steal_tds"}
Slots == 0..(QH_COUNT - 1)

\* The references one call issued, and those issued by all calls so far.
IssuedPtrs(e) == {e.ret[k].ptr : k \in {n \in 1..Len(e.ret) : e.ret[n].some}}
NumIssued(e) == Cardinality({n \in 1..Len(e.ret) : e.ret[n].some})
AllIssued == UNION {IssuedPtrs(log[j]) : j \in 1..Len(log)}

\* Handoff record: a slot is stolen once a reference to it has been issued,
\* and available until then.
QhStolen(u) ==
    {(a - QhArenaBase(u)) \div QH_SIZE :
        a \in {b \in AllIssued :
                  InQhArena(u, b) /\ (b - QhArenaBase(u)) % QH_SIZE = 0}}
TdStolen(u) ==
    {(a - TdArenaBase(u)) \div TD_SIZE :
        a \in {b \in AllIssued :
                  InTdArena(u, b) /\ (b - TdArenaBase(u)) % TD_SIZE = 0}}

\* Lifecycle of an instance.
Bound(u) == ASYNCLISTADDR[u] # 0
Constructed(u) == ~Bound(u) /\ QhStolen(u) = {} /\ TdStolen(u) = {}

\* The calls of operation op on handle u so far (positions in the log).
CallsOf(op, u) == {j \in 1..Len(log) : log[j].op = op /\ log[j].usb = u}

\* Position j is the first call of its operation on its handle.
IsFirst(j) == \A h \in 1..(j - 1) : ~(log[h].op = log[j].op /\ log[h].usb = log[j].usb)

\* The record a steal operation is to issue for slot i of instance u.
RecordOf(op, u, i) == IF op = "steal_qhs" THEN QhRecord(u, i) ELSE TdRecord(u, i)

\* A step is a call: exactly one entry is added to the log.
IsCall == Len(log') = Len(log) + 1
NewCall == log'[Len(log')]

----------------------------------------------------------------------------
(* C1 *)

----------------------------------------------------------------------------
(* C2 *)

\* C2: the first steal_qhs (steal_tds) on an instance returns QH_COUNT
\* elements, all present, element i being the reference to record i of the
\* queue head (transfer descriptor) arena of that instance.
C2_FirstStealComplete ==
    \A j \in 1..Len(log) :
        (log[j].op \in StealOps /\ log[j].usb \in Instances /\ IsFirst(j))
        => /\ ~log[j].panicked
           /\ Len(log[j].ret) = QH_COUNT
           /\ \A i \in Slots :
                 /\ log[j].ret[i + 1].some
                 /\ log[j].ret[i + 1].ptr = RecordOf(log[j].op, log[j].usb, i)

\* Both operations have had their first call, on different instances.
C2_Witness ==
    \E u \in Instances :
        /\ CallsOf("steal_qhs", u) # {}
        /\ CallsOf("steal_tds", Other(u)) # {}

----------------------------------------------------------------------------
(* C3 *)

\* C3: when each steal operation is called at most once per instance, the
\* references issued over the run are pairwise distinct and each lies in the
\* corresponding arena of the instance it was taken from.
C3_OnceNoAlias ==
    (\A u \in Instances, op \in StealOps : Cardinality(CallsOf(op, u)) <= 1)
    => /\ \A j \in 1..Len(log) :
             /\ Cardinality(IssuedPtrs(log[j])) = NumIssued(log[j])
             /\ \A h \in 1..(j - 1) : IssuedPtrs(log[j]) \cap IssuedPtrs(log[h]) = {}
       /\ \A j \in 1..Len(log) :
             log[j].usb \in Instances =>
                \A a \in IssuedPtrs(log[j]) :
                    IF log[j].op = "steal_qhs"
                    THEN InQhArena(log[j].usb, a)
                    ELSE InTdArena(log[j].usb, a)

\* Every steal operation has been called exactly once on every instance.
C3_Witness ==
    \A u \in Instances, op \in StealOps : Cardinality(CallsOf(op, u)) = 1

----------------------------------------------------------------------------
(* C4 *)

\* C4: steal_qhs leaves the availability of every transfer descriptor slot
\* unchanged and steal_tds that of every queue head slot, and the first
\* steal_tds (steal_qhs) on an instance returns the same references whether
\* or not the other operation was called before it.
C4_StealsIndependent ==
    [][IsCall =>
        /\ NewCall.op = "steal_qhs" =>
              \A u \in Instances : TdStolen(u)' = TdStolen(u)
        /\ NewCall.op = "steal_tds" =>
              \A u \in Instances : QhStolen(u)' = QhStolen(u)
        /\ (NewCall.op \in StealOps /\ NewCall.usb \in Instances
                /\ CallsOf(NewCall.op, NewCall.usb) = {}) =>
              NewCall.ret =
                 [k \in 1..QH_COUNT |-> Some(RecordOf(NewCall.op, NewCall.usb, k - 1))]
      ]_vars

\* A first steal_tds after steal_qhs, and a first steal_qhs after steal_tds.
C4_Witness ==
    \E u \in Instances :
        /\ \E j \in CallsOf("steal_tds", u) :
              IsFirst(j) /\ \E h \in CallsOf("steal_qhs", u) : h < j
        /\ \E j \in CallsOf("steal_qhs", Other(u)) :
              IsFirst(j) /\ \E h \in CallsOf("steal_tds", Other(u)) : h < j

----------------------------------------------------------------------------
(* C5 *)

\* C5: the arenas of the two instances are disjoint, and everything obtained
\* through instance A (the address bound by assign_endptlistaddr, the
\* references of steal_qhs and steal_tds) lies in A's arenas, never in B's.
C5_SelectorKeepsInstancesApart ==
    /\ \A u \in Instances :
          /\ QhArenaBase(u) + QH_COUNT * QH_SIZE <= QhArenaBase(Other(u))
                \/ QhArenaBase(Other(u)) + QH_COUNT * QH_SIZE <= QhArenaBase(u)
          /\ TdArenaBase(u) + QH_COUNT * TD_SIZE <= TdArenaBase(Other(u))
                \/ TdArenaBase(Other(u)) + QH_COUNT * TD_SIZE <= TdArenaBase(u)
          /\ \A v \in Instances :
                \/ QhArenaBase(u) + QH_COUNT * QH_SIZE <= TdArenaBase(v)
                \/ TdArenaBase(v) + QH_COUNT * TD_SIZE <= QhArenaBase(u)
    /\ \A u \in Instances :
          Bound(u) => /\ InQhArena(u, ASYNCLISTADDR[u])
                      /\ ~InArenas(Other(u), ASYNCLISTADDR[u])
    /\ \A j \in 1..Len(log) :
          log[j].usb \in Instances =>
             \A a \in IssuedPtrs(log[j]) :
                 InArenas(log[j].usb, a) /\ ~InArenas(Other(log[j].usb), a)

\* One instance has been bound and the other has had slots stolen.
C5_Witness ==
    \E u \in Instances :
        /\ CallsOf("assign_endptlistaddr", u) # {}
        /\ CallsOf("steal_qhs", Other(u)) # {}
        /\ CallsOf("steal_tds", u) # {}

----------------------------------------------------------------------------
(* C6 *)

\* C6: assign_endptlistaddr(u) leaves in ASYNCLISTADDR of u the base
\* address of u's queue head arena, the address of queue head slot 0,
\* whatever was called before.
C6_BindWritesQhBase ==
    [][(IsCall /\ NewCall.op = "assign_endptlistaddr" /\ NewCall.usb \in Instances)
        => /\ ~NewCall.panicked
           /\ ASYNCLISTADDR'[NewCall.usb] = QhArenaBase(NewCall.usb)
           /\ ASYNCLISTADDR'[NewCall.usb] = QhRecord(NewCall.usb, 0)
      ]_vars

\* A bind that follows a steal on the same instance and a bind of the other.
C6_Witness ==
    /\ Len(log) >= 3
    /\ log[Len(log)].op = "assign_endptlistaddr"
    /\ log[Len(log)].usb \in Instances
    /\ CallsOf("steal_qhs", log[Len(log)].usb) # {}
    /\ CallsOf("assign_endptlistaddr", Other(log[Len(log)].usb)) # {}

----------------------------------------------------------------------------
(* C7 *)

\* C7: a call with a handle outside {USB1, USB2} panics in the selector:
\* it returns nothing, issues no reference and writes no register, so both
\* instances are left as they were.
C7_UnknownHandlePanics ==
    [][(IsCall /\ NewCall.usb \notin Instances)
        => /\ NewCall.panicked
           /\ NewCall.ret = <<>>
           /\ AllIssued' = AllIssued
           /\ ASYNCLISTADDR' = ASYNCLISTADDR
      ]_vars

\* The program aborted on an unknown handle after binding and stealing.
C7_Witness ==
    /\ Aborted
    /\ log[Len(log)].usb \notin Instances
    /\ \E u \in Instances : Bound(u) /\ QhStolen(u) # {}

----------------------------------------------------------------------------
(* C8 *)

\* C8: on both instances the queue head arena starts at a multiple of 4096
\* and the transfer descriptor arena at a multiple of 32, so whatever
\* assign_endptlistaddr writes to ASYNCLISTADDR is a multiple of 4096.
C8_ArenasAligned ==
    /\ \A u \in Instances :
          /\ QhArenaBase(u) % 4096 = 0
          /\ TdArenaBase(u) % 32 = 0
    /\ \A u \in Instances : ASYNCLISTADDR[u] % 4096 = 0

\* Both registers have been written, from a section start that is unaligned.
C8_Witness ==
    /\ \A u \in Instances : Bound(u)
    /\ \E s \in Statics, start \in SectionStarts :
          start % 4096 # 0 /\ start < addr[s] /\ addr[s] < start + 4096

----------------------------------------------------------------------------
(* C9 *)

----------------------------------------------------------------------------
(* C10 *)

\* C10: assign_endptlistaddr(A) changes the ASYNCLISTADDR of A and nothing
\* else: not the register of B, not the availability of any slot, not the
\* references issued.  The steals write no register, and a steal on A
\* leaves the slots of B as they were.
C10_Frame ==
    [][(IsCall /\ NewCall.usb \in Instances) =>
        /\ NewCall.op = "assign_endptlistaddr" =>
              /\ ASYNCLISTADDR'[Other(NewCall.usb)] = ASYNCLISTADDR[Other(NewCall.usb)]
              /\ AllIssued' = AllIssued
              /\ NewCall.ret = <<>>
              /\ \A u \in Instances :
                    QhStolen(u)' = QhStolen(u) /\ TdStolen(u)' = TdStolen(u)
        /\ NewCall.op \in StealOps =>
              /\ ASYNCLISTADDR' = ASYNCLISTADDR
              /\ \A u \in Instances \ {NewCall.usb} :
                    QhStolen(u)' = QhStolen(u) /\ TdStolen(u)' = TdStolen(u)
      ]_vars

\* A bind of one instance while the other is unbound and has stolen slots,
\* followed by a steal on the unbound one.
C10_Witness ==
    /\ Len(log) >= 3
    /\ \E u \in Instances :
          /\ log[Len(log)].op = "steal_tds" /\ log[Len(log)].usb = Other(u)
          /\ log[Len(log) - 1].op = "assign_endptlistaddr" /\ log[Len(log) - 1].usb = u
          /\ CallsOf("steal_qhs", Other(u)) # {}
          /\ Bound(u) /\ ~Bound(Other(u))

====
